---- MODULE Spec2Model ----
(***************************************************************************)
(* Model of segmentation_spleen_scribbles/main.py: the MyApp plugin of     *)
(* the MONAILabel annotation server.                                       *)
(*                                                                         *)
(*   - MyApp.__init__ parses the two configuration flags (tta_enabled,     *)
(*     tta_samples) and then runs the base initialiser, which builds the   *)
(*     task registries (init_strategies, init_scoring_methods).            *)
(*   - MyApp.infer is the logits hand-off: a SCRIBBLES task gets the       *)
(*     saved "logits" label added to its request, the base inference is    *)
(*     run, a SEGMENTATION task's logits are saved to the label store and  *)
(*     the temporary file is unlinked, and params.logits is popped.        *)
(*                                                                         *)
(* Python dicts are TLA+ functions whose DOMAIN is the set of keys; a      *)
(* missing key is a key outside the DOMAIN.  Strings handed to the         *)
(* configuration parsers are sequences of one-character strings, so that   *)
(* the parsers are computed character by character.                        *)
(***************************************************************************)
EXTENDS Integers, Sequences, FiniteSets, TLC

VARIABLES
    pc,          \* position of the current infer call: idle, base, post, unlink, pop
    calls,       \* number of infer calls started so far
    request,     \* the request dict of the current call (mutated in place)
    callerReq,   \* the request dict exactly as the caller passed it
    baseReq,     \* the request dict as handed to super().infer
    baseResult,  \* the dict super().infer returned, as it returned it
    result,      \* the dict super().infer returned (mutated in place)
    returned,    \* the dict MyApp.infer returned to its caller
    outcome,     \* how the last call ended: none, returned, failed
    labels,      \* the label store: a set of [image, tag, id, data] entries
    files,       \* the file system outside the label store: path -> data
    dsReads,     \* label-store reads made by the current call
    lastSaved,   \* per image, the data of the last logits save (0: none)
    conf,        \* the configuration dict handed to MyApp.__init__
    self,        \* the attributes MyApp.__init__ has set so far
    phase        \* construction: new, parsed_enabled, parsed, ready, failed

inferVars == <<pc, calls, request, callerReq, baseReq, baseResult, result,
               returned, outcome, labels, files, dsReads, lastSaved>>
appVars == <<conf, self, phase>>
vars == <<pc, calls, request, callerReq, baseReq, baseResult, result, returned,
          outcome, labels, files, dsReads, lastSaved, conf, self, phase>>

----------------------------------------------------------------------------
(* Bounds *)

\* number of image identifiers in the datastore
NumImages == 2
\* number of infer calls in one behaviour
MaxCalls == 3

ImageNames == <<"img1", "img2", "img3", "img4">>
Images == {ImageNames[i] : i \in 1..NumImages}

\* the empty dict; also stands for "no dict" in the bookkeeping variables
Nil == <<>>

----------------------------------------------------------------------------
(* Python dict helpers *)

\* d.get(k): the value, or None (modelled by the caller's default)
HasKey(d, k) == k \in DOMAIN d

\* d[k] = v
DictSet(d, k, v) == [x \in DOMAIN d \cup {k} |-> IF x = k THEN v ELSE d[x]]

\* d.pop(k, None)
DictPop(d, k) == [x \in DOMAIN d \ {k} |-> d[x]]

\* truthiness of a str value: the empty string is falsy
Truthy(v) == v # ""

----------------------------------------------------------------------------
(* Configuration strings and their parsers *)

Str_true == <<"t", "r", "u", "e">>
Str_false == <<"f", "a", "l", "s", "e">>
Str_yes == <<"y", "e", "s">>
Str_no == <<"n", "o">>
Str_on == <<"o", "n">>
Str_off == <<"o", "f", "f">>
Str_5 == <<"5">>

UpperCase == <<"A", "B", "C", "D", "E", "F", "G", "H", "I", "J", "K", "L", "M",
               "N", "O", "P", "Q", "R", "S", "T", "U", "V", "W", "X", "Y", "Z">>
LowerCase == <<"a", "b", "c", "d", "e", "f", "g", "h", "i", "j", "k", "l", "m",
               "n", "o", "p", "q", "r", "s", "t", "u", "v", "w", "x", "y", "z">>
Digits == <<"0", "1", "2", "3", "4", "5", "6", "7", "8", "9">>

\* the position of character c in the sequence cs, 0 when it is not there
IndexIn(c, cs) ==
    IF \E i \in 1..Len(cs) : cs[i] = c
    THEN CHOOSE i \in 1..Len(cs) : cs[i] = c
    ELSE 0

\* str.lower()
Lower(s) ==
    [i \in 1..Len(s) |->
        IF IndexIn(s[i], UpperCase) > 0 THEN LowerCase[IndexIn(s[i], UpperCase)]
        ELSE s[i]]

\* mutant of strtobool: a word that is not recognised reads as false
strtobool_Lenient(val) ==
    IF Lower(val) \in {<<"y">>, Str_yes, <<"t">>, Str_true, Str_on, <<"1">>}
    THEN [raised |-> FALSE, value |-> 1]
    ELSE [raised |-> FALSE, value |-> 0]

\* distutils.util.strtobool(val): 1, 0 or ValueError
strtobool(val) ==
    IF Lower(val) \in {<<"y">>, Str_yes, <<"t">>, Str_true, Str_on, <<"1">>}
    THEN [raised |-> FALSE, value |-> 1]
    ELSE IF Lower(val) \in {<<"n">>, Str_no, <<"f">>, Str_false, Str_off, <<"0">>}
    THEN [raised |-> FALSE, value |-> 0]
    ELSE [raised |-> TRUE, value |-> 0]

\* str.strip() of blanks
RECURSIVE Strip(_)
Strip(s) ==
    IF s = <<>> THEN s
    ELSE IF Head(s) = " " THEN Strip(Tail(s))
    ELSE IF s[Len(s)] = " " THEN Strip(SubSeq(s, 1, Len(s) - 1))
    ELSE s

\* the digits of an integer literal: digits, single underscores between them
IsDigitGroup(s) ==
    /\ s # <<>>
    /\ \A i \in 1..Len(s) : IndexIn(s[i], Digits) > 0 \/ s[i] = "_"
    /\ s[1] # "_"
    /\ s[Len(s)] # "_"
    /\ \A i \in 1..(Len(s) - 1) : ~(s[i] = "_" /\ s[i + 1] = "_")

\* the value of a digit group
RECURSIVE DigitsValue(_)
DigitsValue(s) ==
    IF s = <<>> THEN 0
    ELSE IF s[Len(s)] = "_" THEN DigitsValue(SubSeq(s, 1, Len(s) - 1))
    ELSE 10 * DigitsValue(SubSeq(s, 1, Len(s) - 1)) + (IndexIn(s[Len(s)], Digits) - 1)

\* int(s) of a str: blanks stripped, an optional sign, a digit group;
\* ValueError otherwise
ParseInt(s) ==
    LET t == Strip(s)
        signed == t # <<>> /\ Head(t) \in {"+", "-"}
        body == IF signed THEN Tail(t) ELSE t
    IN  IF IsDigitGroup(body)
        THEN [raised |-> FALSE,
              value |-> IF signed /\ Head(t) = "-" THEN 0 - DigitsValue(body)
                        ELSE DigitsValue(body)]
        ELSE [raised |-> TRUE, value |-> 0]

\* conf.get(key, default)
ConfGet(c, key, default) == IF HasKey(c, key) THEN c[key] ELSE default

----------------------------------------------------------------------------
(* MyApp.__init__ and the registries the base initialiser builds *)

\* init_strategies: the keys of the returned dict, in insertion order
init_strategies(obj) ==
    (IF obj["tta_enabled"] # 0 THEN <<"TTA">> ELSE <<>>) \o <<"random", "first">>

\* mutant of init_scoring_methods: the flag is not tested
init_scoring_methods_Always(obj) ==
    [k \in {"TTA"} |-> [num_samples |-> obj["tta_samples"],
                         spatial_size |-> <<128, 128, 64>>]]

\* init_scoring_methods: key -> the arguments the scoring method is built with
init_scoring_methods(obj) ==
    IF obj["tta_enabled"] # 0
    THEN [k \in {"TTA"} |-> [num_samples |-> obj["tta_samples"],
                             spatial_size |-> <<128, 128, 64>>]]
    ELSE Nil

\* line 43: self.tta_enabled = strtobool(conf.get("tta_enabled", "false"))
ParseEnabled ==
    /\ phase = "new"
    /\ LET r == strtobool(ConfGet(conf, "tta_enabled", Str_false))
       IN  IF r.raised
           THEN phase' = "failed" /\ UNCHANGED self
           ELSE /\ self' = DictSet(self, "tta_enabled", r.value)
                /\ phase' = "parsed_enabled"
    /\ UNCHANGED <<conf, inferVars>>

\* line 44: self.tta_samples = int(conf.get("tta_samples", "5"))
ParseSamples ==
    /\ phase = "parsed_enabled"
    /\ LET r == ParseInt(ConfGet(conf, "tta_samples", Str_5))
       IN  IF r.raised
           THEN phase' = "failed" /\ UNCHANGED self
           ELSE /\ self' = DictSet(self, "tta_samples", r.value)
                /\ phase' = "parsed"
    /\ UNCHANGED <<conf, inferVars>>

\* lines 49-56: super().__init__(...), which builds the task registries
BaseInit ==
    /\ phase = "parsed"
    /\ self' = DictSet(DictSet(self, "_strategies", init_strategies(self)),
                       "_scoring_methods", init_scoring_methods(self))
    /\ phase' = "ready"
    /\ UNCHANGED <<conf, inferVars>>

\* the attributes of an app built from the empty configuration
DefaultSelf ==
    LET parsed == [k \in {"tta_enabled", "tta_samples"} |->
                    IF k = "tta_enabled" THEN strtobool(Str_false).value
                    ELSE ParseInt(Str_5).value]
    IN  DictSet(DictSet(parsed, "_strategies", init_strategies(parsed)),
                "_scoring_methods", init_scoring_methods(parsed))

----------------------------------------------------------------------------
(* The infer registry: self._infers, name -> task kind *)

infers ==
    [m \in {"Spleen_Segmentation", "Histogram+GraphCut", "MIDeepSeg",
            "ISeg+GraphCut", "ISeg+MONAICRF", "ISeg+SimpleCRF",
            "deepgrow_2d", "deepgrow_3d"} |->
        IF m = "Spleen_Segmentation" THEN "SEGMENTATION"
        ELSE IF m \in {"deepgrow_2d", "deepgrow_3d"} THEN "DEEPGROW"
        ELSE "SCRIBBLES"]

\* the model names a caller sends: one of each kind that the registry holds,
\* a second scribbles method, and a name the registry does not hold
RequestModels == {"Spleen_Segmentation", "Histogram+GraphCut", "MIDeepSeg",
                  "deepgrow_3d", "no_such_model"}

\* self._infers[request.get("model")].type
KindOf(req) == infers[req["model"]]

----------------------------------------------------------------------------
(* The datastore, as MyApp.infer uses it *)

\* the identifier the datastore gives the label of an image
LabelId(image) == "label_" \o image

\* datastore.get_labels_by_image_id(image): tag -> label id
get_labels_by_image_id(store, image) ==
    [t \in {l.tag : l \in {x \in store : x.image = image}} |-> LabelId(image)]

\* datastore.get_label_uri(label, tag)
get_label_uri(label, tag) == "datastore/labels/" \o tag \o "/" \o label

\* mutant of save_label: an earlier label under the tag is kept
save_label_Append(store, image, data, tag) ==
    store \cup {[image |-> image, tag |-> tag, id |-> LabelId(image), data |-> data]}

\* datastore.save_label(image, label_filename, tag, info): the file's data is
\* copied into the store; an earlier label of the image under the tag is replaced
save_label(store, image, data, tag) ==
    {l \in store : ~(l.image = image /\ l.tag = tag)}
        \cup {[image |-> image, tag |-> tag, id |-> LabelId(image), data |-> data]}

\* the entries of an image under a tag
LabelsOf(store, image, tag) == {l \in store : l.image = image /\ l.tag = tag}

----------------------------------------------------------------------------
(* MyApp.infer *)

\* mutant of NeedsSavedLogits: every task but the segmentation is given logits
NeedsSavedLogits_NotSegmentation(kind) == kind # "SEGMENTATION"

\* line 105: the task kind whose request gets the saved logits
NeedsSavedLogits(kind) == kind = "SCRIBBLES"

\* mutant of AddSavedLogits: the label id is stored, not its URI
AddSavedLogits_LabelId(req, saved_labels) ==
    IF "logits" \in DOMAIN saved_labels
    THEN DictSet(req, "logits", saved_labels["logits"])
    ELSE req

\* mutant of AddSavedLogits: the test of the tag is left out
AddSavedLogits_AnyTag(req, saved_labels) ==
    IF DOMAIN saved_labels # {}
    THEN LET t == CHOOSE x \in DOMAIN saved_labels : TRUE
         IN  DictSet(req, "logits", get_label_uri(saved_labels[t], t))
    ELSE req

\* lines 106-110: the loop that adds the saved logits into the request
AddSavedLogits(req, saved_labels) ==
    IF "logits" \in DOMAIN saved_labels
    THEN DictSet(req, "logits", get_label_uri(saved_labels["logits"], "logits"))
    ELSE req

\* mutant of ShouldSave: the test of the task kind is left out
ShouldSave_AnyKind(params, kind) ==
    /\ HasKey(params, "logits")
    /\ Truthy(params["logits"])

\* line 118: the condition under which the logits are saved
ShouldSave(params, kind) ==
    /\ HasKey(params, "logits")
    /\ Truthy(params["logits"])
    /\ kind = "SEGMENTATION"

\* mutant of PopLogits: the pop is left out
PopLogits_Forgotten(res) == res

\* line 122: result_params.pop("logits", None), in place inside result
PopLogits(res) == [res EXCEPT !["params"] = DictPop(@, "logits")]

\* mutant of unlink: the file is left on disk
unlink_Noop(fs, path) == fs

\* line 120: os.unlink(path)
unlink(fs, path) == DictPop(fs, path)

\* mutant of AfterCall: the error is caught and dropped
AfterCall_Absorbed(ok, next) == next

\* what follows a call into the datastore or the file system: an error
\* raised there is not caught, so control leaves infer
AfterCall(ok, next) == IF ok THEN next ELSE "raise"

\* the temporary file the base inference writes the logits of call n to
TmpPath(n) == "/tmp/logits_" \o ToString(n)

\* the requests a caller can pass
Requests ==
    {[k \in {"image", "model"} |-> IF k = "image" THEN i ELSE m] :
        i \in Images, m \in RequestModels}
    \cup
    {[k \in {"image", "model", "logits"} |->
        IF k = "image" THEN i ELSE IF k = "model" THEN m ELSE "client_logits"] :
        i \in Images, m \in RequestModels}

\* the dicts super().infer can return in call n: without "params", with
\* params lacking logits, with an empty logits value, with the path of the
\* temporary file it wrote
BaseResults(n) ==
    {[k \in {"label"} |-> "label.nii.gz"]}
    \cup
    {[k \in {"label", "params"} |->
        IF k = "label" THEN "label.nii.gz" ELSE p] :
        p \in {[j \in {"label_names"} |-> "spleen"],
               [j \in {"label_names", "logits"} |->
                    IF j = "logits" THEN "" ELSE "spleen"],
               [j \in {"label_names", "logits"} |->
                    IF j = "logits" THEN TmpPath(n) ELSE "spleen"]}}

\* the call ends with an exception: nothing is returned
Fail ==
    /\ pc' = "idle"
    /\ outcome' = "failed"
    /\ returned' = Nil

\* the call goes on to the position nxt, or ends with the exception
Goto(nxt) ==
    IF nxt = "raise"
    THEN Fail
    ELSE pc' = nxt /\ outcome' = "none" /\ returned' = Nil

\* lines 101-111: entry; a SCRIBBLES task gets the saved logits added.
\* ok: whether the datastore answers the lookup (it raises otherwise)
InferBegin ==
    /\ pc = "idle"
    /\ phase = "ready"
    /\ calls < MaxCalls
    /\ calls' = calls + 1
    /\ \E req \in Requests, ok \in BOOLEAN :
        /\ callerReq' = req
        /\ baseReq' = Nil
        /\ baseResult' = Nil
        /\ result' = Nil
        /\ IF req["model"] \notin DOMAIN infers
           THEN \* KeyError at line 105
                /\ ok
                /\ request' = req
                /\ dsReads' = 0
                /\ Fail
           ELSE IF NeedsSavedLogits(KindOf(req))
           THEN /\ dsReads' = 1
                /\ request' = IF ok
                              THEN AddSavedLogits(req,
                                      get_labels_by_image_id(labels, req["image"]))
                              ELSE req
                /\ Goto(AfterCall(ok, "base"))
           ELSE /\ ok
                /\ dsReads' = 0
                /\ request' = req
                /\ Goto("base")
    /\ UNCHANGED <<labels, files, lastSaved, appVars>>

\* line 113: result = super().infer(request).
\* ok: whether the base inference returns (it raises otherwise)
BaseInfer ==
    /\ pc = "base"
    /\ baseReq' = request
    /\ \E ok \in BOOLEAN :
        /\ \E res \in (IF ok THEN BaseResults(calls) ELSE {Nil}) :
            /\ result' = res
            /\ baseResult' = res
            /\ files' = IF HasKey(res, "params") /\ HasKey(res["params"], "logits")
                           /\ Truthy(res["params"]["logits"])
                        THEN DictSet(files, res["params"]["logits"], calls)
                        ELSE files
        /\ Goto(AfterCall(ok, "post"))
    /\ UNCHANGED <<calls, request, callerReq, labels, dsReads, lastSaved, appVars>>

\* lines 114-119: read params.logits; a SEGMENTATION task saves it.
\* ok: whether save_label succeeds (it raises otherwise)
SaveLogits ==
    /\ pc = "post"
    /\ IF ~HasKey(result, "params")
       THEN \* result.get("params") is None: AttributeError at line 117
            /\ Fail
            /\ UNCHANGED <<labels, lastSaved>>
       ELSE IF ShouldSave(result["params"], KindOf(request))
       THEN \E ok \in BOOLEAN :
            /\ labels' = IF ok
                         THEN save_label(labels, request["image"],
                                         files[result["params"]["logits"]], "logits")
                         ELSE labels
            /\ lastSaved' = IF ok
                            THEN [lastSaved EXCEPT ![request["image"]] =
                                        files[result["params"]["logits"]]]
                            ELSE lastSaved
            /\ Goto(AfterCall(ok, "unlink"))
       ELSE /\ Goto("pop")
            /\ UNCHANGED <<labels, lastSaved>>
    /\ UNCHANGED <<calls, request, callerReq, baseReq, baseResult, result, files,
                   dsReads, appVars>>

\* line 120: os.unlink(logits).
\* ok: whether the file system removes the file (it raises otherwise)
Unlink ==
    /\ pc = "unlink"
    /\ \E ok \in BOOLEAN :
        /\ files' = IF ok THEN unlink(files, result["params"]["logits"]) ELSE files
        /\ Goto(AfterCall(ok, "pop"))
    /\ UNCHANGED <<calls, request, callerReq, baseReq, baseResult, result, labels,
                   dsReads, lastSaved, appVars>>

\* lines 122-124: pop params.logits and return the result
Return ==
    /\ pc = "pop"
    /\ result' = PopLogits(result)
    /\ returned' = PopLogits(result)
    /\ outcome' = "returned"
    /\ pc' = "idle"
    /\ UNCHANGED <<calls, request, callerReq, baseReq, baseResult, labels, files,
                   dsReads, lastSaved, appVars>>

----------------------------------------------------------------------------
(* Specification of the infer entry point, on an app built with the default
   configuration *)

\* the labels the datastore holds before the first infer call: every image
\* may have a "final" label from an earlier annotation
InitialStores ==
    {{[image |-> i, tag |-> "final", id |-> LabelId(i), data |-> 0] : i \in S} :
        S \in SUBSET Images}

Init ==
    /\ pc = "idle"
    /\ calls = 0
    /\ request = Nil
    /\ callerReq = Nil
    /\ baseReq = Nil
    /\ baseResult = Nil
    /\ result = Nil
    /\ returned = Nil
    /\ outcome = "none"
    /\ labels \in InitialStores
    /\ files = Nil
    /\ dsReads = 0
    /\ lastSaved = [i \in Images |-> 0]
    /\ conf = Nil
    /\ self = DefaultSelf
    /\ phase = "ready"

Next ==
    \/ InferBegin
    \/ BaseInfer
    \/ SaveLogits
    \/ Unlink
    \/ Return

Spec == Init /\ [][Next]_vars

----------------------------------------------------------------------------
(* Properties of MyApp.infer, checked under Spec *)

\* the call in progress (or the last call) runs a task of the given kind
CallKind(kind) ==
    /\ request # Nil
    /\ HasKey(infers, request["model"])
    /\ KindOf(request) = kind

\* the logits value the base inference returned, "" when it returned none
BaseLogits ==
    IF HasKey(baseResult, "params") /\ HasKey(baseResult["params"], "logits")
    THEN baseResult["params"]["logits"]
    ELSE ""

\* the base inference returned a params dict holding the key logits
BaseHasLogitsKey ==
    HasKey(baseResult, "params") /\ HasKey(baseResult["params"], "logits")

\* the "logits" labels the store holds for the image of the call
LogitsLabels == LabelsOf(labels, request["image"], "logits")

\* C1: whatever the task kind and whatever the base inference returned, the
\* dict MyApp.infer returns has a params dict without the key logits.
C1_NoLogitsInResponse ==
    outcome = "returned" =>
        /\ HasKey(returned, "params")
        /\ ~HasKey(returned["params"], "logits")
        /\ returned = result

\* C1 witness: a scribbles call whose base result carried a logits path (so
\* nothing was saved) has returned.
C1_Witness ==
    /\ outcome = "returned"
    /\ CallKind("SCRIBBLES")
    /\ Truthy(BaseLogits)
    /\ ~HasKey(returned["params"], "logits")

\* C2 as stated: a returned SEGMENTATION call whose base result holds the key
\* params.logits has left a "logits" label for the image, no temporary file
\* at the logits path, and no logits key in the returned params.
C2_AsStated ==
    (outcome = "returned" /\ CallKind("SEGMENTATION") /\ BaseHasLogitsKey) =>
        /\ LogitsLabels # {}
        /\ ~HasKey(files, BaseLogits)
        /\ ~HasKey(returned["params"], "logits")

\* C2 amended: a returned SEGMENTATION call whose base result holds a
\* non-empty params.logits value has saved that file's data as the image's
\* "logits" label, the temporary file is gone, and the returned params has
\* no logits key.
C2_SavedUnlinkedPopped ==
    (outcome = "returned" /\ CallKind("SEGMENTATION") /\ Truthy(BaseLogits)) =>
        /\ \E l \in LogitsLabels : l.data = calls
        /\ ~HasKey(files, BaseLogits)
        /\ ~HasKey(returned["params"], "logits")

\* C2 witness: such a segmentation call has returned, on an image that also
\* has a label under another tag.
C2_Witness ==
    /\ outcome = "returned"
    /\ CallKind("SEGMENTATION")
    /\ Truthy(BaseLogits)
    /\ \E l \in LogitsLabels : l.data = calls
    /\ LabelsOf(labels, request["image"], "final") # {}

\* C3: when a SCRIBBLES task runs on an image that has a saved "logits"
\* label, the request handed to the base inference holds the key logits with
\* the URI the datastore resolves for that label.
C3_ScribblesGetsSavedUri ==
    (baseReq # Nil /\ CallKind("SCRIBBLES") /\ LogitsLabels # {}) =>
        /\ HasKey(baseReq, "logits")
        /\ \E l \in LogitsLabels : baseReq["logits"] = get_label_uri(l.id, l.tag)
        /\ baseReq["logits"] = "datastore/labels/logits/label_" \o request["image"]

\* C3 witness: the base inference of a scribbles call has been handed the
\* URI, replacing a logits value the client had sent.
C3_Witness ==
    /\ pc = "post"
    /\ CallKind("SCRIBBLES")
    /\ LogitsLabels # {}
    /\ HasKey(callerReq, "logits")
    /\ baseReq["logits"] # callerReq["logits"]

\* C4: when a SCRIBBLES task runs on an image without a saved "logits" label,
\* labels under other tags or not, the request handed to the base inference
\* is the caller's request: same keys, same values.
C4_ScribblesRequestUnmodified ==
    (baseReq # Nil /\ CallKind("SCRIBBLES") /\ LogitsLabels = {}) =>
        baseReq = callerReq

\* C4 witness: the base inference of a scribbles call has run on an image
\* that has a "final" label and no "logits" label.
C4_Witness ==
    /\ pc = "post"
    /\ CallKind("SCRIBBLES")
    /\ LogitsLabels = {}
    /\ LabelsOf(labels, request["image"], "final") # {}
    /\ baseReq = callerReq

\* C5 as stated: once a SCRIBBLES call for an image has returned, the image
\* has no "logits" label in the store.
C5_AsStated ==
    (outcome = "returned" /\ CallKind("SCRIBBLES")) => LogitsLabels = {}

\* C5 amended: a "logits" label of an image comes into the store only by a
\* segmentation call on that image, and no call removes it: a scribbles call
\* reads it and leaves it in the store.
C5_LogitsLabelPersists ==
    [][\A i \in Images :
        /\ (LabelsOf(labels, i, "logits") = {} /\ LabelsOf(labels', i, "logits") # {})
            => (pc = "post" /\ CallKind("SEGMENTATION") /\ request["image"] = i)
        /\ LabelsOf(labels, i, "logits") # {} => LabelsOf(labels', i, "logits") # {}
        /\ (CallKind("SCRIBBLES") /\ pc # "idle") => labels' = labels]_vars

\* C5 witness: a scribbles call that was handed the saved logits has
\* returned, and the label is still in the store.
C5_Witness ==
    /\ outcome = "returned"
    /\ CallKind("SCRIBBLES")
    /\ HasKey(baseReq, "logits")
    /\ LogitsLabels # {}

\* C8: in a SEGMENTATION call whose result carries a logits path, a file is
\* deleted only after its data is in the label store; when save_label
\* raises, the call fails with the file still there and nothing returned;
\* when the deletion raises, the call fails with the label saved and nothing
\* returned; the call gets to its return only with both done.
C8_SaveThenUnlinkNoAbsorb ==
    [][/\ \A p \in DOMAIN files :
            ~HasKey(files', p) =>
                /\ pc = "unlink"
                /\ p = BaseLogits
                /\ \E l \in LogitsLabels : l.data = files[p]
       /\ (pc = "post" /\ CallKind("SEGMENTATION") /\ Truthy(BaseLogits)
                /\ labels' = labels) =>
            /\ outcome' = "failed" /\ pc' = "idle" /\ returned' = Nil
            /\ files' = files /\ HasKey(files', BaseLogits)
       /\ (pc = "unlink" /\ files' = files) =>
            /\ outcome' = "failed" /\ pc' = "idle" /\ returned' = Nil
            /\ \E l \in LogitsLabels : l.data = calls
       /\ (pc' = "pop" /\ CallKind("SEGMENTATION") /\ Truthy(BaseLogits)) =>
            /\ pc = "unlink"
            /\ ~HasKey(files', BaseLogits)
            /\ \E l \in LogitsLabels : l.data = calls]_vars

\* C8 witness (deletion failed): a segmentation call has failed with its
\* logits saved and the temporary file still on disk.
C8_Witness ==
    /\ outcome = "failed"
    /\ CallKind("SEGMENTATION")
    /\ Truthy(BaseLogits)
    /\ HasKey(files, BaseLogits)
    /\ \E l \in LogitsLabels : l.data = calls

C10_FrameOfInfer ==
    [][/\ (pc # "idle" /\ ~CallKind("SEGMENTATION")) =>
            /\ labels' = labels
            /\ \A p \in DOMAIN files : HasKey(files', p) /\ files'[p] = files[p]
       /\ (pc \in {"post", "unlink", "pop"} /\ CallKind("SEGMENTATION")
                /\ ~Truthy(BaseLogits)) =>
            /\ labels' = labels
            /\ files' = files
       /\ pc = "idle" => (labels' = labels /\ files' = files)
       /\ (dsReads' > 0 /\ HasKey(infers, request'["model"])) =>
            KindOf(request') = "SCRIBBLES"
       /\ (pc = "idle" /\ pc' = "base" /\ KindOf(request') = "SCRIBBLES") =>
            dsReads' > 0]_vars

\* C10 witness: a scribbles call whose base result carried a logits path has
\* returned; the file is still on disk and the image has no "logits" label.
C10_Witness ==
    /\ outcome = "returned"
    /\ CallKind("SCRIBBLES")
    /\ Truthy(BaseLogits)
    /\ HasKey(files, BaseLogits)
    /\ LogitsLabels = {}

----------------------------------------------------------------------------
(* Specification of the construction of MyApp from a configuration *)

\* the values of conf["tta_enabled"] a deployment may give
EnabledInputs ==
    {Str_true, <<"T", "r", "u", "e">>, <<"T", "R", "U", "E">>, Str_yes,
     <<"Y">>, <<"t">>, Str_on, <<"1">>,
     Str_false, <<"F", "a", "l", "s", "e">>, Str_no, <<"n">>, <<"f">>, Str_off,
     <<"0">>,
     <<>>, <<"2">>, <<"t", "r", "u">>, <<" ", "t", "r", "u", "e">>,
     <<"e", "n", "a", "b", "l", "e", "d">>}

\* the values of conf["tta_samples"] a deployment may give
SamplesInputs ==
    {Str_5, <<"1", "0">>, <<"0">>, <<"-", "3">>, <<"+", "2">>, <<" ", "7", " ">>,
     <<"1", "_", "0">>,
     <<>>, <<"a", "b", "c">>, <<"5", ".", "0">>, <<"_", "1">>, <<"1", "e", "1">>,
     <<"-">>}

Confs ==
    {Nil}
    \cup {[k \in {"tta_enabled"} |-> e] : e \in EnabledInputs}
    \cup {[k \in {"tta_samples"} |-> n] : n \in SamplesInputs}
    \cup {[k \in {"tta_enabled", "tta_samples"} |->
            IF k = "tta_enabled" THEN e ELSE n] :
            e \in EnabledInputs, n \in SamplesInputs}

InitApp ==
    /\ pc = "idle"
    /\ calls = 0
    /\ request = Nil
    /\ callerReq = Nil
    /\ baseReq = Nil
    /\ baseResult = Nil
    /\ result = Nil
    /\ returned = Nil
    /\ outcome = "none"
    /\ labels = {}
    /\ files = Nil
    /\ dsReads = 0
    /\ lastSaved = [i \in Images |-> 0]
    /\ conf \in Confs
    /\ self = Nil
    /\ phase = "new"

NextApp ==
    \/ ParseEnabled
    \/ ParseSamples
    \/ BaseInit

SpecApp == InitApp /\ [][NextApp]_vars

----------------------------------------------------------------------------
(* Properties of the construction, checked under SpecApp *)

\* the keys of the strategy registry and of the scoring-method registry
StrategyKeys == {self["_strategies"][i] : i \in 1..Len(self["_strategies"])}
ScoringKeys == DOMAIN self["_scoring_methods"]

\* the words strtobool reads as true and as false, in lower case
TrueWords == {<<"y">>, <<"y", "e", "s">>, <<"t">>, <<"t", "r", "u", "e">>,
              <<"o", "n">>, <<"1">>}
FalseWords == {<<"n">>, <<"n", "o">>, <<"f">>, <<"f", "a", "l", "s", "e">>,
               <<"o", "f", "f">>, <<"0">>}

\* conf["tta_enabled"] is given and reads as true; is absent or reads as false
EnabledReadsTrue ==
    HasKey(conf, "tta_enabled") /\ Lower(conf["tta_enabled"]) \in TrueWords
EnabledReadsFalse ==
    ~HasKey(conf, "tta_enabled") \/ Lower(conf["tta_enabled"]) \in FalseWords

\* conf["tta_samples"] is given and is no integer literal: it is empty, or
\* holds a character that is no digit, sign, blank or underscore, or has no
\* digit, or begins with an underscore
SamplesMalformed ==
    /\ HasKey(conf, "tta_samples")
    /\ LET v == conf["tta_samples"]
       IN  \/ v = <<>>
           \/ \E i \in 1..Len(v) :
                IndexIn(v[i], Digits) = 0 /\ v[i] \notin {"+", "-", " ", "_"}
           \/ \A i \in 1..Len(v) : IndexIn(v[i], Digits) = 0
           \/ v[1] = "_"

\* C6 as stated: the registries hold the key "TTA" exactly when the
\* configuration value tta_enabled is the string "true".
C6_AsStated ==
    phase = "ready" =>
        /\ "TTA" \in StrategyKeys <=>
                (HasKey(conf, "tta_enabled") /\ conf["tta_enabled"] = Str_true)
        /\ "TTA" \in ScoringKeys <=>
                (HasKey(conf, "tta_enabled") /\ conf["tta_enabled"] = Str_true)

\* C6 amended: both registries hold the key "TTA" when tta_enabled is a word
\* strtobool reads as true (y, yes, t, true, on, 1, in any letter case);
\* neither holds it when tta_enabled is absent or a word read as false (n,
\* no, f, false, off, 0); for any other value no registry is built.
C6_TtaRegisteredIffTruthy ==
    /\ phase = "ready" =>
        /\ EnabledReadsTrue \/ EnabledReadsFalse
        /\ "TTA" \in StrategyKeys <=> EnabledReadsTrue
        /\ "TTA" \in ScoringKeys <=> EnabledReadsTrue
        /\ {"random", "first"} \subseteq StrategyKeys
    /\ ~(EnabledReadsTrue \/ EnabledReadsFalse) =>
        /\ phase \in {"new", "failed"}
        /\ ~HasKey(self, "_strategies")
        /\ ~HasKey(self, "_scoring_methods")

\* C6 witness: an app configured with tta_enabled = "yes" is built with both
\* "TTA" entries.
C6_Witness ==
    /\ phase = "ready"
    /\ HasKey(conf, "tta_enabled")
    /\ conf["tta_enabled"] = Str_yes
    /\ "TTA" \in StrategyKeys
    /\ "TTA" \in ScoringKeys

\* C7: when tta_enabled is no boolean word or tta_samples is no integer
\* literal, the construction fails before the base initialiser runs and no
\* registry is built; with both keys absent tta_enabled is 0 (false) and
\* tta_samples is 5.
C7_FailFastAndDefaults ==
    /\ (~(EnabledReadsTrue \/ EnabledReadsFalse) \/ SamplesMalformed) =>
        /\ phase \in {"new", "parsed_enabled", "failed"}
        /\ ~HasKey(self, "_strategies")
        /\ ~HasKey(self, "_scoring_methods")
    /\ (~(EnabledReadsTrue \/ EnabledReadsFalse) /\ phase # "new") =>
        (phase = "failed" /\ self = Nil)
    /\ (SamplesMalformed /\ phase \notin {"new", "parsed_enabled"}) =>
        (phase = "failed" /\ ~HasKey(self, "tta_samples"))
    /\ phase = "failed" =>
        (~HasKey(self, "_strategies") /\ ~HasKey(self, "_scoring_methods"))
    /\ (conf = Nil /\ phase \in {"parsed", "ready"}) =>
        (self["tta_enabled"] = 0 /\ self["tta_samples"] = 5)

\* C7 witness: a construction with a valid tta_enabled and a malformed
\* tta_samples has failed after the first flag was parsed.
C7_Witness ==
    /\ phase = "failed"
    /\ SamplesMalformed
    /\ HasKey(self, "tta_enabled")
    /\ ~HasKey(self, "_strategies")

====
